---- MODULE Spec2Model ----
(***************************************************************************)
(* Model of the sorting pipeline of SortFilePes, as sort_cli.main() runs   *)
(* it:                                                                     *)
(*   EmbroideryCore.scan_pes_files, hash_file_by_pattern       (step 1)    *)
(*   TimeEstimator.estimate_time_for_files                     (step 2)    *)
(*   WorkloadAssignment.make_components                        (step 3)    *)
(*   WorkloadAssignment.assign_components_to_people            (step 4)    *)
(*   WorkloadAssignment.add_person_assignments                 (step 5)    *)
(*   FileOperations.group_into_person_folders                  (step 6)    *)
(*   WorkloadAssignment.get_assignment_summary                 (step 7)    *)
(* and of the copy tasks of download_from_dropbox.copy_files_from_folder.  *)
(*                                                                         *)
(* Conventions.  File indices are 1..n in the model for 0..n-1 in the      *)
(* source (TLA+ sequences are 1-based); person indices are 0-based as in   *)
(* the source.  Times are naturals in units of 100 seconds.  A Python dict *)
(* is a sequence of [key, lst] records in insertion order, which is the    *)
(* order dict.values() iterates in.                                        *)
(***************************************************************************)
EXTENDS Integers, Sequences, FiniteSets, TLC

\* ------------------------------------------------------------- bounds
MaxFiles == 3
MaxPeople == 2

\* ------------------------------------------------- program constants
\* Config.DUPLICATE_REDUCTION_SECONDS = 300.0, in units of 100 seconds
DUPLICATE_REDUCTION_SECONDS == 3
\* Config.DEFAULT_PERSON_LABELS
DEFAULT_PERSON_LABELS == <<"A", "B", "C", "D">>
\* Config.DEFAULT_PERSON_WEIGHTS = [1.0, 1.0, 0.7, 0.2], in tenths
DEFAULT_PERSON_WEIGHTS == <<10, 10, 7, 2>>

\* ---------------------------------------------------- input alphabet
\* Digests and item ids are opaque: the code only compares them for
\* equality, so inputs are enumerated up to renaming (first-seen order).
HashNames == <<"h1", "h2", "h3">>
IdNames == <<"i1", "i2">>
\* id_item is None or "" when the file name carries no second field; both
\* are falsy in `if m.get("id_item")`
NoId == ""
\* 0 is the cost the estimator reports when it cannot load a file
SecondsValues == {0, 2}

Range(s) == {s[i] : i \in DOMAIN s}

Rank(names, v) == CHOOSE k \in 1..Len(names) : names[k] = v

FirstSeenOrder(s, names) ==
    \A i \in 1..Len(s) :
        s[i] \in Range(names) =>
            \A k \in 1..(Rank(names, s[i]) - 1) :
                \E j \in 1..(i - 1) : s[j] = names[k]

Meta == [hash : Range(HashNames), id_item : Range(IdNames) \cup {NoId},
         seconds : SecondsValues]

FileMetaInputs ==
    {fm \in UNION {[1..n -> Meta] : n \in 0..MaxFiles} :
        /\ FirstSeenOrder([i \in 1..Len(fm) |-> fm[i].hash], HashNames)
        /\ FirstSeenOrder([i \in 1..Len(fm) |-> fm[i].id_item], IdNames)}

VARIABLES
    file_meta,            \* the scanned artifacts, in scan order
    people_count,         \* self.people_count
    duplicate_reduction,  \* self.duplicate_reduction
    hash_map, id_map,     \* make_components: the two key -> indices dicts
    parent,               \* make_components: the union-find parent array
    upos,                 \* make_components: number of union calls done
    comps,                \* the clusters returned by make_components
    comp_times,           \* assign: list of (comp, adjusted)
    buckets,              \* assign: per-person load
    assignment,           \* assign: file index -> person index
    k,                    \* assign: number of clusters processed by the loop
    person,               \* assign: the loop's local `person`
    pc,                   \* position in the pipeline
    person_labels,        \* self.person_labels
    person_orders,        \* group: per person, the dict hash -> order number
    person_indexes,       \* group: per person, the next order number
    updated_meta,         \* group: the returned list (main.updated_meta)
    disk,                 \* scan: the .pes files os.walk yields, in order
    emb_available,        \* EmbPattern is not None (pyembroidery imported)
    files,                \* scan_pes_files: the list being built
    si,                   \* scan_pes_files: number of files visited
    hash_raised,          \* scan_pes_files: the last hash call raised
    est_meta,             \* estimate_time_for_files: its updated_meta
    ei,                   \* estimate_time_for_files: number of files done
    pats,                 \* canonical form: the patterns being hashed
    digests,              \* canonical form: their digests
    summary,              \* get_assignment_summary: its result, per label
    target_ids,           \* copy: the ids copy_files_from_folder was given
    source_files,         \* copy: the files found in the source folder
    copy_lock,            \* copy: the holder of copy_lock, or NoTask
    copy_stats,           \* copy: the shared dict of counters
    task_pc,              \* copy: per task, its position in process_target_id
    task_i,               \* copy: per task, the matching files handled so far
    task_ok,              \* copy: per task, `success` of its last copy
    task_tmp,             \* copy: per task, the counter value read by `+= 1`
    main_tmp,             \* copy: the value of errors read by the main thread
    completed             \* copy: the main thread's `completed`

groupVars == <<person_orders, person_indexes, updated_meta>>

scanVars == <<disk, emb_available, files, si, hash_raised, est_meta, ei>>

canonVars == <<pats, digests>>

reportVars == <<summary>>

copyVars == <<target_ids, source_files, copy_lock, copy_stats, task_pc, task_i,
              task_ok, task_tmp, main_tmp, completed>>

vars == <<file_meta, people_count, duplicate_reduction, hash_map, id_map,
          parent, upos, comps, comp_times, buckets, assignment, k, person, pc,
          person_labels, groupVars, scanVars, canonVars, reportVars, copyVars>>

N == Len(file_meta)

\* ------------------------------------------------------ dict helpers
HasKey(d, key) == \E j \in 1..Len(d) : d[j].key = key

KeyPos(d, key) == CHOOSE j \in 1..Len(d) : d[j].key = key

\* d.setdefault(key, []).append(i)
SetDefaultAppend(d, key, i) ==
    IF HasKey(d, key)
    THEN [d EXCEPT ![KeyPos(d, key)].lst = Append(@, i)]
    ELSE Append(d, [key |-> key, lst |-> <<i>>])

\* list(d.values())
Values(d) == [j \in 1..Len(d) |-> d[j].lst]

\* ------------------------------------------------- make_components
RECURSIVE BuildHashMap(_, _)
BuildHashMap(fm, i) ==
    IF i = 0 THEN <<>>
    ELSE SetDefaultAppend(BuildHashMap(fm, i - 1), fm[i].hash, i)

IdTruthy(m) == m.id_item # NoId

\* as BuildIdMap without the truthiness test of line 46
RECURSIVE BuildIdMapNoGuard(_, _)
BuildIdMapNoGuard(fm, i) ==
    IF i = 0 THEN <<>>
    ELSE SetDefaultAppend(BuildIdMapNoGuard(fm, i - 1), fm[i].id_item, i)

RECURSIVE BuildIdMap(_, _)
BuildIdMap(fm, i) ==
    IF i = 0 THEN <<>>
    ELSE IF IdTruthy(fm[i])
         THEN SetDefaultAppend(BuildIdMap(fm, i - 1), fm[i].id_item, i)
         ELSE BuildIdMap(fm, i - 1)

\* as find, cutting x loose instead of halving its path
findDetach(par, x) ==
    IF par[x] = x THEN [parent |-> par, root |-> x]
    ELSE [parent |-> [par EXCEPT ![x] = x], root |-> x]

\* find(x) with path halving; returns the root and the updated parent array
RECURSIVE find(_, _)
find(par, x) ==
    IF par[x] = x THEN [parent |-> par, root |-> x]
    ELSE LET p2 == [par EXCEPT ![x] = par[par[x]]]
         IN find(p2, p2[x])

\* as union, re-parenting b itself instead of its root
unionAttachNode(par, a, b) ==
    LET fa == find(par, a)
        fb == find(fa.parent, b)
    IN IF fa.root # fb.root
       THEN [fb.parent EXCEPT ![b] = fa.root]
       ELSE fb.parent

union(par, a, b) ==
    LET fa == find(par, a)
        fb == find(fa.parent, b)
    IN IF fa.root # fb.root
       THEN [fb.parent EXCEPT ![fb.root] = fa.root]
       ELSE fb.parent

\* the union calls of one dict, in the order of the nested loops
\*   for lst in d.values(): for i in range(1, len(lst)): union(lst[0], lst[i])
RECURSIVE PairsOfList(_, _)
PairsOfList(lst, i) ==
    IF i <= 1 THEN <<>>
    ELSE Append(PairsOfList(lst, i - 1), <<lst[1], lst[i]>>)

RECURSIVE PairsOfDict(_, _)
PairsOfDict(d, j) ==
    IF j = 0 THEN <<>>
    ELSE PairsOfDict(d, j - 1) \o PairsOfList(d[j].lst, Len(d[j].lst))

UnionCalls(hm, im) == PairsOfDict(hm, Len(hm)) \o PairsOfDict(im, Len(im))

\* as CollectComps, with the loop starting one index late
RECURSIVE CollectCompsSkipFirst(_, _)
CollectCompsSkipFirst(par, i) ==
    IF i <= 1 THEN [parent |-> par, comps |-> <<>>]
    ELSE LET prev == CollectCompsSkipFirst(par, i - 1)
             f == find(prev.parent, i)
         IN [parent |-> f.parent,
             comps |-> SetDefaultAppend(prev.comps, f.root, i)]

\* comps = {}; for i in range(n): r = find(i); comps.setdefault(r, []).append(i)
RECURSIVE CollectComps(_, _)
CollectComps(par, i) ==
    IF i = 0 THEN [parent |-> par, comps |-> <<>>]
    ELSE LET prev == CollectComps(par, i - 1)
             f == find(prev.parent, i)
         IN [parent |-> f.parent,
             comps |-> SetDefaultAppend(prev.comps, f.root, i)]

\* ------------------------------------- assign_components_to_people
RECURSIVE SumSeconds(_, _, _)
SumSeconds(fm, comp, i) ==
    IF i = 0 THEN 0 ELSE SumSeconds(fm, comp, i - 1) + fm[comp[i]].seconds

\* counts = {}; for i in comp: counts[hash] = counts.get(hash, 0) + 1
RECURSIVE HashCounts(_, _, _)
HashCounts(fm, comp, i) ==
    IF i = 0 THEN <<>>
    ELSE LET prev == HashCounts(fm, comp, i - 1)
             h == fm[comp[i]].hash
         IN IF HasKey(prev, h)
            THEN [prev EXCEPT ![KeyPos(prev, h)].cnt = @ + 1]
            ELSE Append(prev, [key |-> h, cnt |-> 1])

\* as Reduction, discounting every occurrence of a repeated hash
RECURSIVE ReductionPerOccurrence(_, _, _)
ReductionPerOccurrence(counts, dup, j) ==
    IF j = 0 THEN 0
    ELSE ReductionPerOccurrence(counts, dup, j - 1)
         + (IF counts[j].cnt > 1 THEN counts[j].cnt * dup ELSE 0)

\* sum((cnt - 1) * duplicate_reduction for cnt in counts.values() if cnt > 1)
RECURSIVE Reduction(_, _, _)
Reduction(counts, dup, j) ==
    IF j = 0 THEN 0
    ELSE Reduction(counts, dup, j - 1)
         + (IF counts[j].cnt > 1 THEN (counts[j].cnt - 1) * dup ELSE 0)

Max(a, b) == IF a >= b THEN a ELSE b

\* as Adjusted, without the clamp at zero
AdjustedNoClamp(fm, comp, dup) ==
    LET s == SumSeconds(fm, comp, Len(comp))
        counts == HashCounts(fm, comp, Len(comp))
        reduction == Reduction(counts, dup, Len(counts))
    IN s - reduction

Adjusted(fm, comp, dup) ==
    LET s == SumSeconds(fm, comp, Len(comp))
        counts == HashCounts(fm, comp, Len(comp))
        reduction == Reduction(counts, dup, Len(counts))
    IN Max(0, s - reduction)

CompTimes(fm, cs, dup) ==
    [j \in 1..Len(cs) |-> [comp |-> cs[j], adjusted |-> Adjusted(fm, cs[j], dup)]]

\* as InsertDesc, placing an entry before the entries of equal adjusted time
RECURSIVE InsertDescBeforeEqual(_, _)
InsertDescBeforeEqual(sorted, e) ==
    IF sorted = <<>> THEN <<e>>
    ELSE IF sorted[Len(sorted)].adjusted > e.adjusted
         THEN Append(sorted, e)
         ELSE Append(InsertDescBeforeEqual(SubSeq(sorted, 1, Len(sorted) - 1), e),
                     sorted[Len(sorted)])

\* comp_times.sort(key=lambda x: x[1], reverse=True): a stable sort, so
\* entries with equal adjusted time keep their order
RECURSIVE InsertDesc(_, _)
InsertDesc(sorted, e) ==
    IF sorted = <<>> THEN <<e>>
    ELSE IF sorted[Len(sorted)].adjusted >= e.adjusted
         THEN Append(sorted, e)
         ELSE Append(InsertDesc(SubSeq(sorted, 1, Len(sorted) - 1), e),
                     sorted[Len(sorted)])

RECURSIVE SortDesc(_, _)
SortDesc(ct, j) ==
    IF j = 0 THEN <<>> ELSE InsertDesc(SortDesc(ct, j - 1), ct[j])

\* as MinPerson, taking the last of several minima
MinPersonLast(b, pcount) ==
    CHOOSE p \in 0..(pcount - 1) :
        \A q \in 0..(pcount - 1) : b[p] < b[q] \/ (b[p] = b[q] /\ p >= q)

\* as MinPerson, with the comparison reversed (the first maximum)
MaxPerson(b, pcount) ==
    CHOOSE p \in 0..(pcount - 1) :
        \A q \in 0..(pcount - 1) : b[p] > b[q] \/ (b[p] = b[q] /\ p <= q)

\* min(range(self.people_count), key=lambda p: buckets[p]): the first minimum
MinPerson(b, pcount) ==
    CHOOSE p \in 0..(pcount - 1) :
        \A q \in 0..(pcount - 1) : b[p] < b[q] \/ (b[p] = b[q] /\ p <= q)

\* as ZeroBuckets, every bucket starting at one unit of load
UnitBuckets(pcount) == [p \in 0..(pcount - 1) |-> 1]

\* line 84: buckets = [0.0] * self.people_count
ZeroBuckets(pcount) == [p \in 0..(pcount - 1) |-> 0]

\* as AssignComp, writing only the first index of the cluster
AssignCompFirstOnly(asg, comp, p) ==
    [idx \in DOMAIN asg |-> IF idx = comp[1] THEN p ELSE asg[idx]]

\* as AssignComp, writing the 1-based number of the person
AssignCompOneBased(asg, comp, p) ==
    [idx \in DOMAIN asg |-> IF idx \in Range(comp) THEN p + 1 ELSE asg[idx]]

\* for idx in comp: assignment[idx] = person
AssignComp(asg, comp, p) ==
    [idx \in DOMAIN asg |-> IF idx \in Range(comp) THEN p ELSE asg[idx]]


\* --------------------------------------- canonical_bytes_from_pattern
\* A pattern is [stitches, threadlist, extras]: stitches are <<x, y, cmd>>
\* with x and y in tenths of a unit, threads are [color, catalog_number,
\* description], extras is a dict in insertion order.  Strings are numbered;
\* a byte string is a sequence of naturals.
ByteS == 83
ByteT == 84
ByteE == 69
ByteSep == 59
\* the token that stands for the decimal text of the integer n
NumToken(n) == 1000 + n

\* as RoundCoord, truncating toward minus infinity
FloorCoord(t) == t \div 10

\* int(round(x)) for x = t / 10: Python rounds to nearest, ties to even
RoundCoord(t) ==
    LET q == t \div 10
        r == t % 10
    IN IF r < 5 THEN q
       ELSE IF r > 5 THEN q + 1
       ELSE IF q % 2 = 0 THEN q ELSE q + 1

\* line 34: f"S:{x},{y},{cmd}"
StitchPart(st) ==
    <<ByteS, NumToken(RoundCoord(st[1])), NumToken(RoundCoord(st[2])),
      NumToken(st[3])>>

\* line 41: f"T:{int(color)}|{catalog}|{desc}"
ThreadPart(t) ==
    <<ByteT, NumToken(t.color), NumToken(t.catalog_number),
      NumToken(t.description)>>

\* line 47: f"E:{k}={extras[k]}"
ExtraPart(e) == <<ByteE, NumToken(e.key), NumToken(e.value)>>

\* sorted(extras.keys()), as the entries in ascending key order
RECURSIVE SortedEntries(_)
SortedEntries(extras) ==
    IF extras = <<>> THEN <<>>
    ELSE LET j == CHOOSE a \in 1..Len(extras) :
                      \A b \in 1..Len(extras) : extras[a].key <= extras[b].key
             rest == [b \in 1..(Len(extras) - 1) |->
                         IF b < j THEN extras[b] ELSE extras[b + 1]]
         IN <<extras[j]>> \o SortedEntries(rest)

\* lines 28-47: the list `parts`
Parts(pat) ==
    [i \in 1..Len(pat.stitches) |-> StitchPart(pat.stitches[i])]
    \o [i \in 1..Len(pat.threadlist) |-> ThreadPart(pat.threadlist[i])]
    \o [i \in 1..Len(pat.extras) |-> ExtraPart(SortedEntries(pat.extras)[i])]

\* ";".join(parts)
RECURSIVE Join(_, _)
Join(parts, i) ==
    IF i = 0 THEN <<>>
    ELSE IF i = 1 THEN parts[1]
    ELSE Join(parts, i - 1) \o <<ByteSep>> \o parts[i]

canonical_bytes_from_pattern(pat) == Join(Parts(pat), Len(Parts(pat)))

\* hashlib.sha256(data).hexdigest()[:Config.DEFAULT_HASH_LENGTH]: a
\* polynomial hash with a finite range stands for the truncated SHA-256
HashModulus == 65521
RECURSIVE Sha8(_, _)
Sha8(data, i) ==
    IF i = 0 THEN 7
    ELSE (Sha8(data, i - 1) * 31 + data[i]) % HashModulus

Digest(data) == Sha8(data, Len(data))

\* ----------------------------------------------- hash_file_by_pattern
\* A file on disk is [pes, name, parse, raw, est]: whether its name ends in
\* .pes, its name split at "_", what EmbPattern(path) does (raise, or give
\* a pattern), what path.open("rb") does (raise, or give the bytes) and what
\* the estimator's loaders do (fail, or give a pattern of est.sec seconds).
\* lines 58-72: [raised, h]; h is meaningless when raised
hash_file_by_pattern(d, emb) ==
    IF emb /\ d.parse.ok
    THEN [raised |-> FALSE,
          h |-> Digest(canonical_bytes_from_pattern(d.parse.pat))]
    ELSE IF d.raw.ok THEN [raised |-> FALSE, h |-> Digest(d.raw.data)]
    ELSE [raised |-> TRUE, h |-> 0]

\* ----------------------------------------------------- scan_pes_files
\* lines 93-94: the second "_"-separated field of the name, or None
IdItemOf(name) == IF Len(name) > 1 THEN name[2] ELSE NoId

\* lines 96-101: the record of the file at position path with digest h8
ScanRecord(path, d, h8) ==
    [path |-> path, name |-> d.name, hash |-> h8, id_item |-> IdItemOf(d.name)]

\* ------------------------------------------- estimate_time_for_files
\* time_estimator.py lines 41-58 and 90-93: 0.0 without pyembroidery, when
\* no loader succeeds, or when anything raises
EstimatedSeconds(d, emb) == IF emb /\ d.est.ok THEN d.est.sec ELSE 0

\* lines 95-96
WithSeconds(m, sec) == [seconds |-> sec] @@ m

\* as EstimateFinished, leaving the loop one record early
EstimateFinishedEarly(e, fm) == e >= Len(fm) - 1

\* line 89: the loop over file_meta_list is exhausted
EstimateFinished(e, fm) == e = Len(fm)

\* ------------------------------------------- add_person_assignments
\* lines 104-107: the label of a person index
LabelOf(labels, person_idx) ==
    IF person_idx < Len(labels) THEN labels[person_idx + 1]
    ELSE <<"Person", person_idx>>

\* as AddPersonAssignments, building the records anew without their cost
AddPersonAssignmentsZeroCost(fm, asg, labels) ==
    [i \in 1..Len(fm) |->
        [person |-> asg[i], person_label |-> LabelOf(labels, asg[i]),
         seconds |-> 0] @@ fm[i]]

\* lines 99-109: a copy of every record with 'person' and 'person_label'
AddPersonAssignments(fm, asg, labels) ==
    [i \in 1..Len(fm) |->
        [person |-> asg[i], person_label |-> LabelOf(labels, asg[i])] @@ fm[i]]

\* ----------------------------------------- group_into_person_folders
\* lines 61-64 and 73-76: m.get("person"), defaulting to the first person
PersonIdxOf(m, nlabels) ==
    IF "person" \notin DOMAIN m THEN 0
    ELSE IF ~(0 <= m.person /\ m.person < nlabels) THEN 0
    ELSE m.person

\* lines 53-55
EmptyOrders(nlabels) ==
    [orders |-> [p \in 0..(nlabels - 1) |-> <<>>],
     indexes |-> [p \in 0..(nlabels - 1) |-> 1]]

\* lines 66-69: number the hash of m under its person if it is new there
NoteHash(st, pidx, h8) ==
    IF HasKey(st.orders[pidx], h8) THEN st
    ELSE [orders |-> [st.orders EXCEPT
                         ![pidx] = Append(@, [key |-> h8,
                                              order |-> st.indexes[pidx]])],
          indexes |-> [st.indexes EXCEPT ![pidx] = @ + 1]]

\* as FirstPass, with one counter shared by all persons
RECURSIVE FirstPassSharedIndex(_, _, _)
FirstPassSharedIndex(fm, nlabels, i) ==
    IF i = 0 THEN EmptyOrders(nlabels)
    ELSE LET prev == FirstPassSharedIndex(fm, nlabels, i - 1)
             pidx == PersonIdxOf(fm[i], nlabels)
         IN IF HasKey(prev.orders[pidx], fm[i].hash) THEN prev
            ELSE [orders |-> [prev.orders EXCEPT
                                 ![pidx] = Append(@, [key |-> fm[i].hash,
                                                      order |-> prev.indexes[0]])],
                  indexes |-> [q \in DOMAIN prev.indexes |-> prev.indexes[0] + 1]]

\* the file indices in the order the balancer assigned their clusters
RECURSIVE ClusterOrder(_, _)
ClusterOrder(ct, j) ==
    IF j = 0 THEN <<>> ELSE ClusterOrder(ct, j - 1) \o ct[j].comp

\* as FirstPass, visiting the files in the order of ClusterOrder
RECURSIVE FirstPassClusterOrder(_, _, _)
FirstPassClusterOrder(fm, nlabels, i) ==
    IF i = 0 THEN EmptyOrders(nlabels)
    ELSE LET m == fm[ClusterOrder(comp_times, Len(comp_times))[i]]
         IN NoteHash(FirstPassClusterOrder(fm, nlabels, i - 1),
                     PersonIdxOf(m, nlabels), m.hash)

\* lines 59-69: the first pass over the first i records of file_meta
RECURSIVE FirstPass(_, _, _)
FirstPass(fm, nlabels, i) ==
    IF i = 0 THEN EmptyOrders(nlabels)
    ELSE NoteHash(FirstPass(fm, nlabels, i - 1),
                  PersonIdxOf(fm[i], nlabels), fm[i].hash)

\* person_orders[person_idx][h8]
OrderOf(d, key) == d[KeyPos(d, key)].order

\* lines 72-97: the record the second pass appends for m; dst_path is the
\* folder <label>/<NNN_hash8> (the file name inside it is not modelled)
MovedRecord(m, orders, labels) ==
    LET pidx == PersonIdxOf(m, Len(labels))
        label == labels[pidx + 1]
        order_num == OrderOf(orders[pidx], m.hash)
    IN [dst_path |-> <<label, order_num, m.hash>>,
        person_label |-> label,
        folder_order |-> order_num] @@ m

\* ------------------------------------------- get_assignment_summary
\* lines 116-120: the records whose person_label is label, in list order
RECURSIVE PeopleFiles(_, _, _, _)
PeopleFiles(fm, labels, label, i) ==
    IF i = 0 THEN <<>>
    ELSE LET m == fm[i]
             l == IF "person_label" \in DOMAIN m THEN m.person_label
                  ELSE labels[1]
         IN IF l = label
            THEN Append(PeopleFiles(fm, labels, label, i - 1), m)
            ELSE PeopleFiles(fm, labels, label, i - 1)

\* the index list of a list of records
Indices(fs) == [i \in 1..Len(fs) |-> i]

\* lines 124-149: the statistics of one label (the id_item of a record that
\* has none is None, which line 136 leaves out)
SummaryOf(fs, dup) ==
    LET total_secs == SumSeconds(fs, Indices(fs), Len(fs))
        counts == HashCounts(fs, Indices(fs), Len(fs))
        reduction == Reduction(counts, dup, Len(counts))
    IN [file_count |-> Len(fs),
        total_seconds |-> total_secs,
        adjusted_seconds |-> Max(0, total_secs - reduction),
        unique_id_items |->
            Cardinality({fs[i].id_item : i \in 1..Len(fs)} \ {NoId}),
        unique_hashes |-> Cardinality({fs[i].hash : i \in 1..Len(fs)})]

\* lines 113-151: the summary, one entry per label in the order of the labels
get_assignment_summary(fm, labels, dup) ==
    [j \in 1..Len(labels) |->
        SummaryOf(PeopleFiles(fm, labels, labels[j], Len(fm)), dup)]

\* -------------------------------- download_from_dropbox: the copy tasks
\* copy_lock is free
NoTask == 0

\* the main thread as holder of copy_lock
MainThread == -1

\* a source file is [isdigit, decimal, id], read off the first "_"-separated
\* field of its name: str.isdigit() holds, int() accepts it, the value of int()
\* line 102: int(parts[0]) raises ValueError on a field of digits that are not
\* decimal digits, such as a superscript two
IntRaises(f) == f.isdigit /\ ~f.decimal

\* lines 100-105: some file makes the matching loop raise
LoopRaises(sf) == \E i \in 1..Len(sf) : IntRaises(sf[i])

\* lines 101-105: the file's name starts with the digits of target_id
Matches(f, target_id) == f.isdigit /\ f.decimal /\ f.id = target_id

\* lines 96-106: matching_files
MatchingFiles(sf, target_id) ==
    SelectSeq(sf, LAMBDA f : Matches(f, target_id))

\* `with copy_lock:` can be entered
LockFree(l) == l = NoTask

\* lines 118-121: the counter `success` selects
CounterOf(ok) == IF ok THEN "copied" ELSE "errors"

\* ------------------------------------------------------------ states
\* sort_cli.py line 64: the labels main() passes for `people` persons
LabelsFor(people) ==
    IF people <= Len(DEFAULT_PERSON_LABELS)
    THEN SubSeq(DEFAULT_PERSON_LABELS, 1, people)
    ELSE [i \in 1..people |-> <<"Person", i>>]

\* WorkloadAssignment.__init__ as main() calls it, and the locals of the
\* later stages before they exist
PipelineStart ==
    /\ duplicate_reduction = DUPLICATE_REDUCTION_SECONDS
    /\ person_labels = LabelsFor(people_count)
    /\ hash_map = <<>>
    /\ id_map = <<>>
    /\ parent = <<>>
    /\ upos = 0
    /\ comps = <<>>
    /\ comp_times = <<>>
    /\ buckets = <<>>
    /\ assignment = <<>>
    /\ k = 0
    /\ person = 0
    /\ person_orders = <<>>
    /\ person_indexes = <<>>
    /\ updated_meta = <<>>

\* steps 1 and 2 are not running
ScanIdle ==
    /\ disk = <<>>
    /\ emb_available = TRUE
    /\ files = <<>>
    /\ si = 0
    /\ hash_raised = FALSE
    /\ est_meta = <<>>
    /\ ei = 0

\* no pattern is being hashed on its own
CanonIdle ==
    /\ pats = <<>>
    /\ digests = <<>>

\* step 7 has not run
ReportIdle == summary = <<>>

\* no copy is running
CopyIdle ==
    /\ target_ids = {}
    /\ source_files = <<>>
    /\ copy_lock = NoTask
    /\ copy_stats = <<>>
    /\ task_pc = <<>>
    /\ task_i = <<>>
    /\ task_ok = <<>>
    /\ task_tmp = <<>>
    /\ main_tmp = 0
    /\ completed = 0

\* main() after steps 1 and 2: file_meta scanned and costed
Init ==
    /\ file_meta \in FileMetaInputs
    /\ people_count \in 1..MaxPeople
    /\ PipelineStart
    /\ ScanIdle
    /\ CanonIdle
    /\ ReportIdle
    /\ CopyIdle
    /\ pc = "make_components"

\* lines 27-47: parent = list(range(n)) and the two dicts
BuildMaps ==
    /\ pc = "make_components"
    /\ parent' = [i \in 1..N |-> i]
    /\ hash_map' = BuildHashMap(file_meta, N)
    /\ id_map' = BuildIdMap(file_meta, N)
    /\ upos' = 0
    /\ pc' = "union"
    /\ UNCHANGED <<file_meta, people_count, duplicate_reduction, comps,
                   comp_times, buckets, assignment, k, person>>
    /\ UNCHANGED <<person_labels, groupVars, scanVars, canonVars, reportVars,
                   copyVars>>

\* lines 49-54: one union call
UnionStep ==
    /\ pc = "union"
    /\ upos < Len(UnionCalls(hash_map, id_map))
    /\ LET call == UnionCalls(hash_map, id_map)[upos + 1]
       IN parent' = union(parent, call[1], call[2])
    /\ upos' = upos + 1
    /\ UNCHANGED <<file_meta, people_count, duplicate_reduction, hash_map,
                   id_map, comps, comp_times, buckets, assignment, k, person,
                   pc>>
    /\ UNCHANGED <<person_labels, groupVars, scanVars, canonVars, reportVars,
                   copyVars>>

\* lines 56-60: collect the equivalence classes and return them
ReturnComps ==
    /\ pc = "union"
    /\ upos = Len(UnionCalls(hash_map, id_map))
    /\ LET c == CollectComps(parent, N)
       IN /\ parent' = c.parent
          /\ comps' = Values(c.comps)
    /\ pc' = "comp_times"
    /\ UNCHANGED <<file_meta, people_count, duplicate_reduction, hash_map,
                   id_map, upos, comp_times, buckets, assignment, k, person>>
    /\ UNCHANGED <<person_labels, groupVars, scanVars, canonVars, reportVars,
                   copyVars>>

\* lines 69-79
ComputeCompTimes ==
    /\ pc = "comp_times"
    /\ comp_times' = CompTimes(file_meta, comps, duplicate_reduction)
    /\ pc' = "sort"
    /\ UNCHANGED <<file_meta, people_count, duplicate_reduction, hash_map,
                   id_map, parent, upos, comps, buckets, assignment, k, person>>
    /\ UNCHANGED <<person_labels, groupVars, scanVars, canonVars, reportVars,
                   copyVars>>

\* line 82
SortCompTimes ==
    /\ pc = "sort"
    /\ comp_times' = SortDesc(comp_times, Len(comp_times))
    /\ pc' = "init_buckets"
    /\ UNCHANGED <<file_meta, people_count, duplicate_reduction, hash_map,
                   id_map, parent, upos, comps, buckets, assignment, k, person>>
    /\ UNCHANGED <<person_labels, groupVars, scanVars, canonVars, reportVars,
                   copyVars>>

\* lines 84-85
InitBuckets ==
    /\ pc = "init_buckets"
    /\ buckets' = ZeroBuckets(people_count)
    /\ assignment' = [i \in 1..N |-> 0]
    /\ k' = 0
    /\ pc' = "assign"
    /\ UNCHANGED <<file_meta, people_count, duplicate_reduction, hash_map,
                   id_map, parent, upos, comps, comp_times, person>>
    /\ UNCHANGED <<person_labels, groupVars, scanVars, canonVars, reportVars,
                   copyVars>>

\* lines 87-92: one iteration of the loop over comp_times
AssignStep ==
    /\ pc = "assign"
    /\ k < Len(comp_times)
    /\ LET comp == comp_times[k + 1].comp
           t == comp_times[k + 1].adjusted
           p == MinPerson(buckets, people_count)
       IN /\ person' = p
          /\ buckets' = [buckets EXCEPT ![p] = @ + t]
          /\ assignment' = AssignComp(assignment, comp, p)
    /\ k' = k + 1
    /\ UNCHANGED <<file_meta, people_count, duplicate_reduction, hash_map,
                   id_map, parent, upos, comps, comp_times, pc>>
    /\ UNCHANGED <<person_labels, groupVars, scanVars, canonVars, reportVars,
                   copyVars>>

\* line 94
ReturnAssignment ==
    /\ pc = "assign"
    /\ k = Len(comp_times)
    /\ pc' = "done"
    /\ UNCHANGED <<file_meta, people_count, duplicate_reduction, hash_map,
                   id_map, parent, upos, comps, comp_times, buckets,
                   assignment, k, person>>
    /\ UNCHANGED <<person_labels, groupVars, scanVars, canonVars, reportVars,
                   copyVars>>


\* sort_cli.py line 84: step 5, file_meta = add_person_assignments(...)
AddPersonStep ==
    /\ pc = "done"
    /\ file_meta' = AddPersonAssignments(file_meta, assignment, person_labels)
    /\ pc' = "group"
    /\ UNCHANGED <<people_count, duplicate_reduction, hash_map, id_map,
                   parent, upos, comps, comp_times, buckets, assignment, k,
                   person, person_labels, groupVars, scanVars, canonVars,
                   reportVars, copyVars>>

\* file_operations.py lines 48-69: the first pass of step 6
GroupFirstPass ==
    /\ pc = "group"
    /\ LET st == FirstPass(file_meta, Len(person_labels), N)
       IN /\ person_orders' = st.orders
          /\ person_indexes' = st.indexes
    /\ updated_meta' = <<>>
    /\ pc' = "move"
    /\ UNCHANGED <<file_meta, people_count, duplicate_reduction, hash_map,
                   id_map, parent, upos, comps, comp_times, buckets,
                   assignment, k, person, person_labels, scanVars, canonVars,
                   reportVars, copyVars>>

\* file_operations.py lines 71-100: the second pass of step 6 and the return
GroupSecondPass ==
    /\ pc = "move"
    /\ updated_meta' =
          [i \in 1..N |-> MovedRecord(file_meta[i], person_orders, person_labels)]
    /\ pc' = "grouped"
    /\ UNCHANGED <<file_meta, people_count, duplicate_reduction, hash_map,
                   id_map, parent, upos, comps, comp_times, buckets,
                   assignment, k, person, person_labels, person_orders,
                   person_indexes, scanVars, canonVars,
                   reportVars, copyVars>>

\* sort_cli.py line 93: step 7, get_assignment_summary(updated_meta)
Summarise ==
    /\ pc = "grouped"
    /\ summary' = get_assignment_summary(updated_meta, person_labels,
                                         duplicate_reduction)
    /\ pc' = "summarised"
    /\ UNCHANGED <<file_meta, people_count, duplicate_reduction, hash_map,
                   id_map, parent, upos, comps, comp_times, buckets,
                   assignment, k, person, person_labels, groupVars, scanVars,
                   canonVars, copyVars>>

Next ==
    \/ BuildMaps
    \/ UnionStep
    \/ ReturnComps
    \/ ComputeCompTimes
    \/ SortCompTimes
    \/ InitBuckets
    \/ AssignStep
    \/ ReturnAssignment
    \/ AddPersonStep
    \/ GroupFirstPass
    \/ GroupSecondPass
    \/ Summarise

Spec == Init /\ [][Next]_vars

\* steps 3 and 4 alone: make_components and assign_components_to_people
NextAssign ==
    \/ BuildMaps
    \/ UnionStep
    \/ ReturnComps
    \/ ComputeCompTimes
    \/ SortCompTimes
    \/ InitBuckets
    \/ AssignStep
    \/ ReturnAssignment

SpecAssign == Init /\ [][NextAssign]_vars

\* ------------------------------------------------ the worked scenario
\* five artifacts with digests [h1,h1,h2,h3,h3], item ids [i1,-,i1,i2,i2]
\* and costs [10,20,5,7,7]
ScenarioHashes == <<"h1", "h1", "h2", "h3", "h3">>

ScenarioIds == <<"i1", NoId, "i1", "i2", "i2">>

ScenarioSeconds == <<10, 20, 5, 7, 7>>

\* the scenario's list with the costs c
ScenarioMeta(c) ==
    [i \in 1..Len(ScenarioHashes) |->
        [hash |-> ScenarioHashes[i], id_item |-> ScenarioIds[i],
         seconds |-> c[i]]]

\* the scenario, and the same files when the estimator fails on some of
\* them and reports 0
ScenarioInputs ==
    {ScenarioMeta(c) : c \in {d \in [1..Len(ScenarioSeconds) -> Range(ScenarioSeconds) \cup {0}] :
                                \A i \in 1..Len(ScenarioSeconds) :
                                    d[i] \in {0, ScenarioSeconds[i]}}}

InitScenario ==
    /\ file_meta \in ScenarioInputs
    /\ people_count \in 1..MaxPeople
    /\ PipelineStart
    /\ ScanIdle
    /\ CanonIdle
    /\ ReportIdle
    /\ CopyIdle
    /\ pc = "make_components"

SpecScenario == InitScenario /\ [][Next]_vars

\* ------------------------------------------ hashing patterns directly
\* stitch x coordinates in tenths: -0.5, 0.4, 0.5, 0.6, 1.4, 1.5, 2.5; y is
\* -0.4 or 0.4
CoordTenths == {-5, 4, 5, 6, 14, 15, 25}

ExtrasChoices ==
    { <<>>,
      <<[key |-> 1, value |-> 1], [key |-> 2, value |-> 2]>>,
      <<[key |-> 2, value |-> 2], [key |-> 1, value |-> 1]>> }

Patterns ==
    {[stitches |-> <<<<x, y, cmd>>>>,
      threadlist |-> <<[color |-> c, catalog_number |-> 0, description |-> 0]>>,
      extras |-> e] :
        x \in CoordTenths, y \in {-4, 4}, cmd \in {0, 1}, c \in {0, 1},
        e \in ExtrasChoices}

\* two patterns are about to be hashed
InitCanon ==
    /\ pats \in Patterns \X Patterns
    /\ digests = <<>>
    /\ file_meta = <<>>
    /\ people_count = 1
    /\ PipelineStart
    /\ ScanIdle
    /\ ReportIdle
    /\ CopyIdle
    /\ pc = "hash_patterns"

\* embroidery_core.py lines 62-63 on each of the two patterns
HashPatterns ==
    /\ pc = "hash_patterns"
    /\ digests' = [i \in 1..Len(pats) |->
                      Digest(canonical_bytes_from_pattern(pats[i]))]
    /\ pc' = "hashed"
    /\ UNCHANGED <<file_meta, people_count, duplicate_reduction, hash_map,
                   id_map, parent, upos, comps, comp_times, buckets,
                   assignment, k, person, person_labels, groupVars, scanVars,
                   pats, reportVars, copyVars>>

NextCanon == HashPatterns

SpecCanon == InitCanon /\ [][NextCanon]_vars

\* ------------------- steps 1 and 2 of main(), up to the start of step 3
MaxDisk == 2

EmptyPattern == [stitches |-> <<>>, threadlist |-> <<>>, extras |-> <<>>]

\* the pattern of one stitch at x tenths
PatternAt(x) ==
    [stitches |-> <<<<x, 0, 0>>>>, threadlist |-> <<>>, extras |-> <<>>]

ScanPatterns == {PatternAt(x) : x \in {4, 14}}

\* raw contents: the very bytes one of the patterns serialises to, and
\* other bytes
RawContents == {canonical_bytes_from_pattern(PatternAt(4)), <<ByteSep>>}

NameChoices == {<<"a">>, <<"o1", "i1">>}

\* a file that cannot be opened cannot be parsed or loaded either
PesFiles ==
    {d \in [pes : {TRUE},
            name : NameChoices,
            parse : {[ok |-> FALSE, pat |-> EmptyPattern]}
                    \cup {[ok |-> TRUE, pat |-> p] : p \in ScanPatterns},
            raw : {[ok |-> FALSE, data |-> <<>>]}
                  \cup {[ok |-> TRUE, data |-> b] : b \in RawContents},
            est : {[ok |-> FALSE, sec |-> 0]}
                  \cup {[ok |-> TRUE, sec |-> c] : c \in SecondsValues \ {0}}] :
        ~d.raw.ok => (~d.parse.ok /\ ~d.est.ok)}

\* a file the walk skips at lines 83-84
OtherFile ==
    [pes |-> FALSE, name |-> <<"a">>,
     parse |-> [ok |-> FALSE, pat |-> EmptyPattern],
     raw |-> [ok |-> FALSE, data |-> <<>>],
     est |-> [ok |-> FALSE, sec |-> 0]]

Disks == UNION {[1..n -> PesFiles \cup {OtherFile}] : n \in 0..MaxDisk}

\* main() before step 1
InitScan ==
    /\ disk \in Disks
    /\ emb_available \in BOOLEAN
    /\ files = <<>>
    /\ si = 0
    /\ hash_raised = FALSE
    /\ est_meta = <<>>
    /\ ei = 0
    /\ file_meta = <<>>
    /\ people_count = MaxPeople
    /\ PipelineStart
    /\ CanonIdle
    /\ ReportIdle
    /\ CopyIdle
    /\ pc = "scan"

\* embroidery_core.py lines 82-101: one file of the walk
ScanStep ==
    /\ pc = "scan"
    /\ si < Len(disk)
    /\ LET d == disk[si + 1]
           r == hash_file_by_pattern(d, emb_available)
       IN IF ~d.pes
          THEN UNCHANGED <<files, hash_raised>>
          ELSE /\ hash_raised' = r.raised
               /\ files' = IF r.raised THEN files
                           ELSE Append(files, ScanRecord(si + 1, d, r.h))
    /\ si' = si + 1
    /\ UNCHANGED <<file_meta, people_count, duplicate_reduction, hash_map,
                   id_map, parent, upos, comps, comp_times, buckets,
                   assignment, k, person, pc, person_labels, groupVars,
                   disk, emb_available, est_meta, ei, canonVars,
                   reportVars, copyVars>>

\* embroidery_core.py line 102 and sort_cli.py lines 68-71
ScanReturn ==
    /\ pc = "scan"
    /\ si = Len(disk)
    /\ file_meta' = files
    /\ pc' = IF files = <<>> THEN "exit" ELSE "estimate"
    /\ UNCHANGED <<people_count, duplicate_reduction, hash_map, id_map,
                   parent, upos, comps, comp_times, buckets, assignment, k,
                   person, person_labels, groupVars, scanVars, canonVars,
                   reportVars, copyVars>>

\* time_estimator.py lines 89-97: one record of the loop
EstimateStep ==
    /\ pc = "estimate"
    /\ ~EstimateFinished(ei, file_meta)
    /\ LET m == file_meta[ei + 1]
       IN est_meta' = Append(est_meta,
              WithSeconds(m, EstimatedSeconds(disk[m.path], emb_available)))
    /\ ei' = ei + 1
    /\ UNCHANGED <<file_meta, people_count, duplicate_reduction, hash_map,
                   id_map, parent, upos, comps, comp_times, buckets,
                   assignment, k, person, pc, person_labels, groupVars,
                   disk, emb_available, files, si, hash_raised, canonVars,
                   reportVars, copyVars>>

\* time_estimator.py line 99 and sort_cli.py line 75
EstimateReturn ==
    /\ pc = "estimate"
    /\ EstimateFinished(ei, file_meta)
    /\ file_meta' = est_meta
    /\ pc' = "make_components"
    /\ UNCHANGED <<people_count, duplicate_reduction, hash_map, id_map,
                   parent, upos, comps, comp_times, buckets, assignment, k,
                   person, person_labels, groupVars, scanVars, canonVars,
                   reportVars, copyVars>>

NextScan ==
    \/ ScanStep
    \/ ScanReturn
    \/ EstimateStep
    \/ EstimateReturn
    \/ BuildMaps

SpecScan == InitScan /\ [][NextScan]_vars

\* ----------------------- download_from_dropbox.copy_files_from_folder
MaxTargets == 2
MaxSources == 2

\* a name whose first field is not a number, one whose first field int()
\* rejects, and names starting with an id
SourceFileChoices ==
    {[isdigit |-> FALSE, decimal |-> FALSE, id |-> 0],
     [isdigit |-> TRUE, decimal |-> FALSE, id |-> 0]}
    \cup {[isdigit |-> TRUE, decimal |-> TRUE, id |-> n] : n \in 1..MaxTargets}

\* everything the copy tasks never touch
sortVars == <<file_meta, people_count, duplicate_reduction, hash_map, id_map,
              parent, upos, comps, comp_times, buckets, assignment, k, person,
              person_labels, groupVars, scanVars, canonVars, reportVars>>

\* lines 158-175: copy_stats reset and one task submitted per target id
InitCopy ==
    /\ target_ids \in SUBSET (1..MaxTargets)
    /\ source_files \in UNION {[1..n -> SourceFileChoices] : n \in 1..MaxSources}
    /\ copy_lock = NoTask
    /\ copy_stats = [copied |-> 0, errors |-> 0, found_ids |-> {},
                     missing_ids |-> <<>>]
    /\ task_pc = [t \in target_ids |-> "match"]
    /\ task_i = [t \in target_ids |-> 0]
    /\ task_ok = [t \in target_ids |-> TRUE]
    /\ task_tmp = [t \in target_ids |-> 0]
    /\ main_tmp = 0
    /\ completed = 0
    /\ file_meta = <<>>
    /\ people_count = 1
    /\ PipelineStart
    /\ ScanIdle
    /\ CanonIdle
    /\ ReportIdle
    /\ pc = "copy"

\* lines 96-108: the task of target id t collects its matching files, or
\* the loop raises and the task ends with the exception
Match(t) ==
    /\ task_pc[t] = "match"
    /\ task_pc' = [task_pc EXCEPT ![t] =
                      IF LoopRaises(source_files) THEN "raised"
                      ELSE IF MatchingFiles(source_files, t) # <<>> THEN "found"
                      ELSE "missing"]
    /\ UNCHANGED <<sortVars, pc, main_tmp, target_ids, source_files, copy_lock,
                   copy_stats, task_i, task_ok, task_tmp, completed>>

\* lines 109-110: found_ids.add(target_id) under the lock
FoundAdd(t) ==
    /\ task_pc[t] = "found"
    /\ LockFree(copy_lock)
    /\ copy_stats' = [copy_stats EXCEPT !.found_ids = @ \cup {t}]
    /\ task_pc' = [task_pc EXCEPT ![t] = "copy"]
    /\ UNCHANGED <<sortVars, pc, main_tmp, target_ids, source_files, copy_lock, task_i,
                   task_ok, task_tmp, completed>>

\* lines 113-115: copy_single_file succeeds or fails
CopyFile(t) ==
    /\ task_pc[t] = "copy"
    /\ \E ok \in BOOLEAN : task_ok' = [task_ok EXCEPT ![t] = ok]
    /\ task_pc' = [task_pc EXCEPT ![t] = "count"]
    /\ UNCHANGED <<sortVars, pc, main_tmp, target_ids, source_files, copy_lock,
                   copy_stats, task_i, task_tmp, completed>>

\* lines 117-121: the lock is taken and `+= 1` reads the counter
CountEnter(t) ==
    /\ task_pc[t] = "count"
    /\ LockFree(copy_lock)
    /\ copy_lock' = t
    /\ task_tmp' = [task_tmp EXCEPT ![t] = copy_stats[CounterOf(task_ok[t])]]
    /\ task_pc' = [task_pc EXCEPT ![t] = "count_write"]
    /\ UNCHANGED <<sortVars, pc, main_tmp, target_ids, source_files, copy_stats, task_i,
                   task_ok, completed>>

\* lines 117-123: `+= 1` writes the counter, the lock is released, and the
\* loop goes to the next matching file or the task returns
CountWrite(t) ==
    /\ task_pc[t] = "count_write"
    /\ copy_stats' = [copy_stats EXCEPT ![CounterOf(task_ok[t])] = task_tmp[t] + 1]
    /\ copy_lock' = NoTask
    /\ task_i' = [task_i EXCEPT ![t] = @ + 1]
    /\ task_pc' = [task_pc EXCEPT ![t] =
                      IF task_i[t] + 1 < Len(MatchingFiles(source_files, t))
                      THEN "copy" ELSE "done"]
    /\ UNCHANGED <<sortVars, pc, main_tmp, target_ids, source_files, task_ok, task_tmp,
                   completed>>

\* lines 124-127: missing_ids.append(target_id) under the lock
MissingAppend(t) ==
    /\ task_pc[t] = "missing"
    /\ LockFree(copy_lock)
    /\ copy_stats' = [copy_stats EXCEPT !.missing_ids = Append(@, t)]
    /\ task_pc' = [task_pc EXCEPT ![t] = "done"]
    /\ UNCHANGED <<sortVars, pc, main_tmp, target_ids, source_files, copy_lock, task_i,
                   task_ok, task_tmp, completed>>

\* lines 181-193: the main thread takes the result of a completed task
Collect(t) ==
    /\ pc = "copy"
    /\ task_pc[t] = "done"
    /\ task_pc' = [task_pc EXCEPT ![t] = "taken"]
    /\ completed' = completed + 1
    /\ UNCHANGED <<sortVars, pc, main_tmp, target_ids, source_files, copy_lock,
                   copy_stats, task_i, task_ok, task_tmp>>

\* lines 181-186 and 195-196: future.result() re-raises the task's exception
CollectRaised(t) ==
    /\ pc = "copy"
    /\ task_pc[t] = "raised"
    /\ task_pc' = [task_pc EXCEPT ![t] = "taken"]
    /\ completed' = completed + 1
    /\ pc' = "main_error"
    /\ UNCHANGED <<sortVars, main_tmp, target_ids, source_files, copy_lock,
                   copy_stats, task_i, task_ok, task_tmp>>

\* lines 197-198: the main thread takes the lock and `+= 1` reads errors
MainErrorEnter ==
    /\ pc = "main_error"
    /\ LockFree(copy_lock)
    /\ copy_lock' = MainThread
    /\ main_tmp' = copy_stats.errors
    /\ pc' = "main_error_write"
    /\ UNCHANGED <<sortVars, target_ids, source_files, copy_stats, task_pc,
                   task_i, task_ok, task_tmp, completed>>

\* lines 197-198: `+= 1` writes errors and the lock is released
MainErrorWrite ==
    /\ pc = "main_error_write"
    /\ copy_stats' = [copy_stats EXCEPT !.errors = main_tmp + 1]
    /\ copy_lock' = NoTask
    /\ pc' = "copy"
    /\ UNCHANGED <<sortVars, main_tmp, target_ids, source_files, task_pc,
                   task_i, task_ok, task_tmp, completed>>

\* lines 200-223: every result was taken; the statistics are returned
ReturnStats ==
    /\ pc = "copy"
    /\ completed = Cardinality(target_ids)
    /\ pc' = "copied"
    /\ UNCHANGED <<sortVars, copyVars>>

NextCopy ==
    \/ \E t \in target_ids : Match(t)
    \/ \E t \in target_ids : FoundAdd(t)
    \/ \E t \in target_ids : CopyFile(t)
    \/ \E t \in target_ids : CountEnter(t)
    \/ \E t \in target_ids : CountWrite(t)
    \/ \E t \in target_ids : MissingAppend(t)
    \/ \E t \in target_ids : Collect(t)
    \/ \E t \in target_ids : CollectRaised(t)
    \/ MainErrorEnter
    \/ MainErrorWrite
    \/ ReturnStats

SpecCopy == InitCopy /\ [][NextCopy]_vars

\* ====================================================== properties
People == 0..(people_count - 1)

\* make_components has returned
CompsReturned == pc \notin {"make_components", "union"}

\* assign_components_to_people has computed comp_times
CompTimesComputed == pc \in {"sort", "init_buckets", "assign", "done"}

SameHash(i, j) == file_meta[i].hash = file_meta[j].hash

SameId(i, j) ==
    /\ file_meta[i].id_item # NoId
    /\ file_meta[i].id_item = file_meta[j].id_item

\* i and j are joined by an edge of the shared-key graph
SharedKey(i, j) == SameHash(i, j) \/ SameId(i, j)

SameCluster(i, j) ==
    \E c \in 1..Len(comps) : i \in Range(comps[c]) /\ j \in Range(comps[c])

\* the indices a chain of shared-key edges reaches from S in at most n steps
RECURSIVE ReachFrom(_, _)
ReachFrom(S, n) ==
    LET T == S \cup {j \in 1..N : \E i \in S : SharedKey(i, j)}
    IN IF n = 0 \/ T = S THEN S ELSE ReachFrom(T, n - 1)

\* C1: end to end, two artifacts that share a digest or a non-empty logical
\* item id receive the same worker index
C1_RelatedStayTogether ==
    pc = "done" =>
        \A i, j \in 1..N : SharedKey(i, j) => assignment[i] = assignment[j]

\* two artifacts of different digest linked by their item id sit with one
\* worker while another artifact sits with another worker
C1_Witness ==
    /\ pc = "done"
    /\ \E i, j, l \in 1..N :
          /\ ~SameHash(i, j) /\ SameId(i, j)
          /\ assignment[i] = assignment[j]
          /\ assignment[l] # assignment[i]

\* C2: the clusters returned by make_components are non-empty, pairwise
\* disjoint, and cover exactly the index set: every index of the input
\* occurs exactly once in exactly one cluster
C2_Partition ==
    CompsReturned =>
        /\ \A c \in 1..Len(comps) : Len(comps[c]) > 0
        /\ \A c \in 1..Len(comps) : Range(comps[c]) \subseteq 1..N
        /\ \A i \in 1..N :
              Cardinality({cp \in (1..Len(comps)) \X (1..N) :
                              /\ cp[2] <= Len(comps[cp[1]])
                              /\ comps[cp[1]][cp[2]] = i}) = 1

C2_Witness ==
    /\ CompsReturned
    /\ Len(comps) >= 2
    /\ \E c \in 1..Len(comps) : Len(comps[c]) >= 2

\* C3: make_components returns exactly the connected components of the
\* shared-key graph: the cluster of an index is the set of indices a chain
\* of shared-digest / shared-item-id edges reaches from it
C3_ConnectedComponents ==
    CompsReturned =>
        \A i \in 1..N : {j \in 1..N : SameCluster(i, j)} = ReachFrom({i}, N)

\* a cluster holds two artifacts with no common key, joined only through a
\* third artifact that shares its digest with one and its item id with the
\* other
C3_Witness ==
    /\ CompsReturned
    /\ \E i, j, m \in 1..N :
          /\ SameCluster(i, j) /\ ~SharedKey(i, j)
          /\ SameHash(i, m) /\ SameId(m, j)

\* C4: transitivity: if A shares a digest with B and B shares a non-empty
\* item id with C, then A, B and C are in one cluster, wherever the three
\* stand in the input list
C4_Transitivity ==
    CompsReturned =>
        \A a, b, c \in 1..N :
            (SameHash(a, b) /\ SameId(b, c)) =>
                (SameCluster(a, b) /\ SameCluster(b, c) /\ SameCluster(a, c))

\* the chain is a real one (A and C share nothing), with C scanned first
C4_Witness ==
    /\ CompsReturned
    /\ \E a, b, c \in 1..N :
          /\ a # b /\ SameHash(a, b) /\ SameId(b, c)
          /\ ~SharedKey(a, c)
          /\ c < b /\ c < a
          /\ SameCluster(a, c)

\* C5: non-splitting: after assign_components_to_people all artifacts of
\* one cluster have the same worker index
C5_NonSplitting ==
    pc = "done" =>
        \A c \in 1..Len(comps) :
            \A i, j \in Range(comps[c]) : assignment[i] = assignment[j]

\* a cluster of several artifacts was given to a worker other than 0
C5_Witness ==
    /\ pc = "done"
    /\ \E c \in 1..Len(comps) :
          /\ Len(comps[c]) >= 2
          /\ \A i \in Range(comps[c]) : assignment[i] = 1

MaxBucket == CHOOSE x \in Range(buckets) : \A y \in Range(buckets) : y <= x

MinBucket == CHOOSE x \in Range(buckets) : \A y \in Range(buckets) : x <= y

\* the adjusted cost of the single largest cluster (0 when there is none)
LargestAdjusted ==
    IF comp_times = <<>> THEN 0
    ELSE CHOOSE x \in {comp_times[j].adjusted : j \in 1..Len(comp_times)} :
            \A j \in 1..Len(comp_times) : comp_times[j].adjusted <= x

WeightValues == Range(DEFAULT_PERSON_WEIGHTS)

PersonWeightConfigs == [People -> WeightValues]

\* the bucket totals the loop's last iteration chose from
BucketsBefore ==
    [buckets EXCEPT ![person] = @ - comp_times[k].adjusted]

\* C7: when per-worker weights are configured, the worker chosen for each
\* cluster minimises bucket_total / weight
C7_WeightedChoice ==
    (pc = "assign" /\ k >= 1) =>
        \A w \in PersonWeightConfigs :
            \A q \in People :
                BucketsBefore[person] * w[q] <= BucketsBefore[q] * w[person]

\* the digests that occur among the artifacts of a cluster
HashesOf(comp) == {file_meta[i].hash : i \in Range(comp)}

Occurrences(comp, h) == Cardinality({i \in Range(comp) : file_meta[i].hash = h})

\* the sum of f over the set S, f a function defined on S
RECURSIVE SetSum(_, _)
SetSum(S, f) ==
    IF S = {} THEN 0
    ELSE LET x == CHOOSE y \in S : TRUE IN f[x] + SetSum(S \ {x}, f)

RawCost(comp) ==
    SetSum(Range(comp), [i \in Range(comp) |-> file_meta[i].seconds])

TotalReduction(comp) ==
    SetSum({h \in HashesOf(comp) : Occurrences(comp, h) > 1},
           [h \in HashesOf(comp) |->
               (Occurrences(comp, h) - 1) * duplicate_reduction])

\* C8: the adjusted cost of a cluster is max(0, raw_cost - total_reduction),
\* with raw_cost the sum of its artifacts' costs and total_reduction the sum
\* over every digest occurring k > 1 times of (k - 1) * duplicate_reduction;
\* it is never negative
C8_AdjustedCost ==
    CompTimesComputed =>
        \A j \in 1..Len(comp_times) :
            LET d == RawCost(comp_times[j].comp) - TotalReduction(comp_times[j].comp)
            IN /\ comp_times[j].adjusted = (IF d > 0 THEN d ELSE 0)
               /\ comp_times[j].adjusted >= 0

\* one cluster's discount exceeds its positive raw cost, another cluster
\* keeps a positive cost after a discount
C8_Witness ==
    /\ CompTimesComputed
    /\ \E j \in 1..Len(comp_times) :
          /\ RawCost(comp_times[j].comp) > 0
          /\ RawCost(comp_times[j].comp) < TotalReduction(comp_times[j].comp)
          /\ comp_times[j].adjusted = 0
    /\ \E j \in 1..Len(comp_times) : comp_times[j].adjusted > 0

\* C9: after balancing every artifact has a worker index in
\* 0..people_count-1 that the assignment of its cluster set: each loop
\* iteration writes its chosen worker on every artifact of its cluster, and
\* at the end every artifact lies in exactly one processed cluster
C9_EveryArtifactAssigned ==
    /\ (pc = "assign" /\ k >= 1) =>
          /\ person \in People
          /\ \A idx \in Range(comp_times[k].comp) : assignment[idx] = person
    /\ pc = "done" =>
          \A idx \in 1..N :
              /\ assignment[idx] \in People
              /\ Cardinality({j \in 1..k : idx \in Range(comp_times[j].comp)}) = 1

\* every worker of several has artifacts, one of them a multi-artifact cluster
C9_Witness ==
    /\ pc = "done"
    /\ people_count >= 2
    /\ \A p \in People : \E idx \in 1..N : assignment[idx] = p
    /\ \E j \in 1..Len(comp_times) : Len(comp_times[j].comp) >= 2

\* the artifacts the loop has not reached yet
Unassigned ==
    {idx \in 1..N : \A j \in 1..k : idx \notin Range(comp_times[j].comp)}

\* C10: before the balancer assigns it, an artifact's worker_index holds an
\* unset sentinel distinguishable from every valid worker index
C10_UnsetSentinel ==
    pc = "assign" => \A idx \in Unassigned : assignment[idx] \notin People

\* the artifacts step 5 recorded under worker p
ArtifactsOf(p) == {i \in 1..N : file_meta[i].person = p}

\* the distinct digests among the artifacts of worker p
DigestsOf(p) == {file_meta[i].hash : i \in ArtifactsOf(p)}

\* the sequence number step 6 gave artifact i
SeqNo(i) == updated_meta[i].folder_order

\* C11: for each worker, the sequence numbers of the distinct digests among
\* its artifacts are exactly 1..k, k the number of those digests, without
\* gap or repeat, and artifacts with the same (worker, digest) carry the
\* same number
C11_SequenceNumbering ==
    pc = "grouped" =>
        \A p \in People :
            /\ {SeqNo(i) : i \in ArtifactsOf(p)} = 1..Cardinality(DigestsOf(p))
            /\ \A i, j \in ArtifactsOf(p) :
                  (file_meta[i].hash = file_meta[j].hash) <=> (SeqNo(i) = SeqNo(j))

\* two workers have artifacts, one of them artifacts of two digests
C11_Witness ==
    /\ pc = "grouped"
    /\ people_count >= 2
    /\ Cardinality(DigestsOf(0)) >= 2
    /\ Cardinality(DigestsOf(1)) >= 1

\* the first artifact, in scan order, of digest h under worker p
FirstArtifact(p, h) ==
    CHOOSE i \in ArtifactsOf(p) :
        /\ file_meta[i].hash = h
        /\ \A j \in ArtifactsOf(p) : file_meta[j].hash = h => i <= j

\* the position in the balancer's loop of the cluster of artifact i
AssignedAt(i) ==
    CHOOSE j \in 1..Len(comp_times) : i \in Range(comp_times[j].comp)

\* C12: within one worker, digest d1 has a smaller sequence number than
\* digest d2 if and only if the first artifact of d1 under that worker
\* precedes, in scan order, the first artifact of d2 under that worker
C12_FirstSeenOrder ==
    pc = "grouped" =>
        \A p \in People :
            \A i, j \in ArtifactsOf(p) :
                (SeqNo(i) < SeqNo(j)) <=>
                    (FirstArtifact(p, file_meta[i].hash)
                        < FirstArtifact(p, file_meta[j].hash))

\* a worker holds two digests whose clusters the balancer assigned in the
\* order opposite to the scan order
C12_Witness ==
    /\ pc = "grouped"
    /\ \E p \in People :
          \E i, j \in ArtifactsOf(p) :
              /\ i < j
              /\ SeqNo(i) < SeqNo(j)
              /\ AssignedAt(j) < AssignedAt(i)

\* the run is the scenario's: its five artifacts at full cost, two workers
IsScenario ==
    /\ people_count = 2
    /\ N = Len(ScenarioHashes)
    /\ \A i \in 1..N :
          /\ file_meta[i].hash = ScenarioHashes[i]
          /\ file_meta[i].id_item = ScenarioIds[i]
          /\ file_meta[i].seconds = ScenarioSeconds[i]

\* C14: in the scenario the clusters are {0,1,2} (1,2,3 here) with adjusted
\* cost 32 and {3,4} (4,5 here) with adjusted cost 11, artifacts 0,1,2 go
\* to worker 0 and 3,4 to worker 1, and the final bucket totals are [32, 11]
C14_Scenario ==
    IsScenario =>
        /\ CompsReturned => comps = << <<1, 2, 3>>, <<4, 5>> >>
        /\ CompTimesComputed =>
              comp_times = << [comp |-> <<1, 2, 3>>, adjusted |-> 32],
                              [comp |-> <<4, 5>>, adjusted |-> 11] >>
        /\ pc = "done" =>
              /\ assignment = <<0, 0, 0, 1, 1>>
              /\ buckets = (0 :> 32) @@ (1 :> 11)

C14_Witness == IsScenario /\ pc = "done" /\ buckets[1] > 0

Abs(x) == IF x < 0 THEN -x ELSE x

\* the integer nearest to t / 10, the even one of the two when t / 10 lies
\* halfway between them
Nearest(t) ==
    CHOOSE n \in -3..3 :
        \A m \in -3..3 :
            \/ Abs(10 * n - t) < Abs(10 * m - t)
            \/ (Abs(10 * n - t) = Abs(10 * m - t) /\ (n % 2 = 0 \/ m = n))

\* extras compared as dicts: the same keys with the same values
SameExtras(p, q) == Range(p.extras) = Range(q.extras)

\* p and q have the same command codes, threads and extras, and stitch
\* coordinates that round to the same integers
SameUpToNoise(p, q) ==
    /\ Len(p.stitches) = Len(q.stitches)
    /\ \A i \in 1..Len(p.stitches) :
          /\ Nearest(p.stitches[i][1]) = Nearest(q.stitches[i][1])
          /\ Nearest(p.stitches[i][2]) = Nearest(q.stitches[i][2])
          /\ p.stitches[i][3] = q.stitches[i][3]
    /\ p.threadlist = q.threadlist
    /\ SameExtras(p, q)

\* C15: the same canonical content hashed twice gives the same digest, and
\* two patterns that differ only in stitch coordinates that round to the
\* same integers give the same digest
C15_DigestDeterminism ==
    pc = "hashed" =>
        (SameUpToNoise(pats[1], pats[2]) => digests[1] = digests[2])

\* the two patterns differ in both coordinates of the stitch (one of them a
\* tie) and in the insertion order of their extras, and have one digest
C15_Witness ==
    /\ pc = "hashed"
    /\ pats[1].stitches[1][1] = 15 /\ pats[2].stitches[1][1] = 25
    /\ pats[1].stitches[1][2] # pats[2].stitches[1][2]
    /\ pats[1].extras # pats[2].extras
    /\ SameUpToNoise(pats[1], pats[2])
    /\ digests[1] = digests[2]

\* the file of the scan record m
FileOf(m) == disk[m.path]

\* hash_file_by_pattern took the raw-byte fallback on file d
ViaFallback(d) == ~(emb_available /\ d.parse.ok)

\* C16: computing a digest never raises, and when structured parsing is
\* unavailable or fails the digest is the hash of the raw bytes
C16_HashNeverRaises ==
    /\ ~hash_raised
    /\ \A i \in 1..Len(files) :
          ViaFallback(FileOf(files[i])) =>
              files[i].hash = Digest(FileOf(files[i]).raw.data)

\* C17: the result of hashing tells a fallback digest from a digest of the
\* parsed pattern, so no fallback result equals a parsed result
C17_FallbackFlagged ==
    \A i, j \in 1..Len(files) :
        files[i].hash = files[j].hash =>
            (ViaFallback(FileOf(files[i])) <=> ViaFallback(FileOf(files[j])))

IsPes(i) == disk[i].pes

\* the positions of the .pes files, in scan order
PesPaths == SelectSeq([i \in 1..Len(disk) |-> i], IsPes)

\* C18: no digest or cost failure removes an artifact or aborts the batch;
\* the list handed to clustering holds every scanned .pes file once, in
\* scan order, with a digest, and with cost 0 when estimation failed or the
\* parser is absent
C18_NoArtifactLost ==
    /\ pc = "exit" => PesPaths = <<>>
    /\ pc \in {"make_components", "union"} =>
          /\ Len(file_meta) = Len(PesPaths)
          /\ \A i \in 1..Len(file_meta) :
                /\ i <= Len(PesPaths) => file_meta[i].path = PesPaths[i]
                /\ "hash" \in DOMAIN file_meta[i]
                /\ "seconds" \in DOMAIN file_meta[i]
                /\ (~emb_available \/ ~FileOf(file_meta[i]).est.ok) =>
                      file_meta[i].seconds = 0

\* every slot of s is still there, unchanged, in t, and t has at most one
\* slot more
WrittenOnce(s, t) ==
    /\ Len(s) <= Len(t)
    /\ Len(t) <= Len(s) + 1
    /\ \A i \in 1..Len(s) : t[i] = s[i]

\* C19: make_components starts only when the scan has visited every file
\* and every artifact of the list has its digest and its cost; each digest
\* slot and each cost slot is written once and never rewritten
C19_Barrier ==
    [][ /\ (pc = "make_components" /\ pc' = "union") =>
              /\ si = Len(disk)
              /\ Len(est_meta) = Len(files)
              /\ file_meta = est_meta
              /\ \A i \in 1..Len(file_meta) :
                    /\ {"hash", "seconds"} \subseteq DOMAIN file_meta[i]
                    /\ file_meta[i].hash = files[i].hash
        /\ WrittenOnce(files, files')
        /\ WrittenOnce(est_meta, est_meta') ]_vars

\* clustering has started on two artifacts, one with a cost and one whose
\* estimate failed
C19_Witness ==
    /\ pc = "union"
    /\ Len(parent) = Len(file_meta)
    /\ Len(file_meta) >= 2
    /\ \E i, j \in 1..Len(file_meta) :
          file_meta[i].seconds > 0 /\ file_meta[j].seconds = 0

\* record t has every field of record m with the value it has in m, and
\* beyond them exactly the fields added
Extends(m, t, added) ==
    /\ DOMAIN t = DOMAIN m \cup added
    /\ \A f \in DOMAIN m : t[f] = m[f]

\* the list t has the records of the list s, in order, each extended by
\* exactly the fields added that it did not have
ListExtends(s, t, added) ==
    /\ Len(t) = Len(s)
    /\ \A i \in 1..Len(s) : Extends(s[i], t[i], added \ DOMAIN s[i])

\* C20: clustering changes no record; balancing adds only the worker index
\* and its label; ordering adds only the sequence number and the
\* destination; digest, item id, cost, and the length and order of the
\* list are unchanged by all three
C20_Frame ==
    [][ /\ pc \in {"make_components", "union"} => file_meta' = file_meta
        /\ pc \in {"comp_times", "sort", "init_buckets", "assign"} =>
              file_meta' = file_meta
        /\ pc = "done" =>
              ListExtends(file_meta, file_meta', {"person", "person_label"})
        /\ pc \in {"group", "move"} => file_meta' = file_meta
        /\ (pc = "move" /\ pc' = "grouped") =>
              ListExtends(file_meta, updated_meta', {"folder_order", "dst_path"})
        /\ Len(file_meta') = Len(file_meta)
        /\ \A i \in 1..Len(file_meta) :
              /\ file_meta'[i].hash = file_meta[i].hash
              /\ file_meta'[i].id_item = file_meta[i].id_item
              /\ file_meta'[i].seconds = file_meta[i].seconds ]_vars

\* all three stages have run on artifacts with costs and an item id, giving
\* two workers their artifacts and one of them a second group
C20_Witness ==
    /\ pc = "grouped"
    /\ \E i \in 1..N : file_meta[i].seconds > 0 /\ file_meta[i].id_item # NoId
    /\ \E i, j \in 1..N :
          /\ updated_meta[i].person = 0
          /\ updated_meta[j].person = 1
    /\ \E i \in 1..N : updated_meta[i].folder_order > 1

\* artifact i has no item id and a digest no other artifact has
LoneArtifact(i) ==
    /\ file_meta[i].id_item = NoId
    /\ \A j \in 1..N : j # i => file_meta[j].hash # file_meta[i].hash

\* C21: an artifact without item id whose digest no other artifact shares is
\* a cluster of its own; two artifacts that both lack an item id are never
\* in one cluster unless a chain of shared keys joins them
C21_SingletonWithoutId ==
    CompsReturned =>
        /\ \A i \in 1..N :
              LoneArtifact(i) => \A j \in 1..N : SameCluster(i, j) => j = i
        /\ \A i, j \in 1..N :
              (file_meta[i].id_item = NoId /\ file_meta[j].id_item = NoId
               /\ ~SameHash(i, j) /\ SameCluster(i, j)) =>
                  \E m \in 1..N : m # i /\ SharedKey(i, m)

\* two artifacts without item id and with digests of their own sit in two
\* clusters of one artifact each
C21_Witness ==
    /\ CompsReturned
    /\ \E i, j \in 1..N :
          /\ i # j /\ LoneArtifact(i) /\ LoneArtifact(j)
          /\ ~SameCluster(i, j)
          /\ \E c \in 1..Len(comps) : comps[c] = <<i>>

\* C22: for an empty artifact list make_components returns no cluster and
\* assign_components_to_people returns an empty assignment and bucket
\* totals that are all 0
C22_EmptyInput ==
    N = 0 =>
        /\ CompsReturned => comps = <<>>
        /\ pc \in {"assign", "done"} =>
              /\ assignment = <<>>
              /\ DOMAIN buckets = People
              /\ \A p \in People : buckets[p] = 0

\* both functions have returned on the empty list, for several workers
C22_Witness ==
    /\ N = 0
    /\ pc = "done"
    /\ people_count >= 2
    /\ comps = <<>>

\* the cluster the balancer's loop handled in its j-th iteration
ClusterAt(j) == comp_times[j].comp

\* C23: each cluster goes, as a whole, to a worker whose bucket total at
\* that moment is minimal, the one of lowest index among several
C23_GreedyStep ==
    [][ (pc = "assign" /\ k' = k + 1) =>
            /\ person' \in People
            /\ \A q \in People :
                  /\ buckets[person'] <= buckets[q]
                  /\ buckets[q] = buckets[person'] => person' <= q
            /\ \A idx \in Range(comp_times[k'].comp) :
                  assignment'[idx] = person' ]_vars

\* the first cluster went to worker 0 on a tie, a later one to worker 1
\* whose bucket was smaller, and one of the clusters has several artifacts
C23_Witness ==
    /\ pc = "assign"
    /\ k >= 2
    /\ person = 1
    /\ assignment[ClusterAt(1)[1]] = 0
    /\ buckets[0] > 0
    /\ \E j \in 1..k : Len(ClusterAt(j)) >= 2

\* the smallest artifact index of a cluster
MinIndex(comp) == CHOOSE i \in Range(comp) : \A j \in Range(comp) : i <= j

\* C24: the balancer's loop takes the clusters in non-increasing order of
\* adjusted cost, clusters of equal adjusted cost in scan order (ascending
\* smallest artifact index)
C24_ProcessingOrder ==
    pc \in {"init_buckets", "assign", "done"} =>
        /\ {ClusterAt(j) : j \in 1..Len(comp_times)} = Range(comps)
        /\ Len(comp_times) = Len(comps)
        /\ \A a, b \in 1..Len(comp_times) :
              a < b =>
                  \/ comp_times[a].adjusted > comp_times[b].adjusted
                  \/ /\ comp_times[a].adjusted = comp_times[b].adjusted
                     /\ MinIndex(ClusterAt(a)) < MinIndex(ClusterAt(b))
        /\ (pc = "assign" /\ k >= 1) =>
              \A idx \in Range(ClusterAt(k)) : assignment[idx] = person

\* two clusters of equal positive cost are taken in scan order, ahead of a
\* cheaper cluster that was scanned before both
C24_Witness ==
    /\ pc = "assign"
    /\ k = Len(comp_times)
    /\ \E a, b, c \in 1..Len(comp_times) :
          /\ a < b /\ b < c
          /\ comp_times[a].adjusted = comp_times[b].adjusted
          /\ comp_times[b].adjusted > comp_times[c].adjusted
          /\ MinIndex(ClusterAt(c)) < MinIndex(ClusterAt(a))

\* C25: during balancing no bucket total ever decreases, and the worker
\* index of the artifacts of a cluster already assigned never changes
C25_NoRebalancing ==
    [][ pc = "assign" =>
            /\ \A p \in People : buckets'[p] >= buckets[p]
            /\ \A j \in 1..k :
                  \A idx \in Range(ClusterAt(j)) :
                      assignment'[idx] = assignment[idx] ]_vars

\* three clusters were assigned and every one of several workers has load
C25_Witness ==
    /\ pc = "done"
    /\ k >= 3
    /\ people_count >= 2
    /\ \A p \in People : buckets[p] > 0

\* the clusters, by position in the loop, all of whose artifacts carry the
\* worker index p
ClustersOf(p) ==
    {j \in 1..Len(comp_times) :
        \A idx \in Range(ClusterAt(j)) : assignment[idx] = p}

AdjustedAt == [j \in 1..Len(comp_times) |-> comp_times[j].adjusted]

C27_SummaryMatchesBuckets ==
    pc = "summarised" =>
        \A p \in People : summary[p + 1].adjusted_seconds = buckets[p]

\* the digests numbered in the sequence registry of worker p
Registered(p) == {person_orders[p][j].key : j \in 1..Len(person_orders[p])}

\* C28: after the full pipeline no digest is in the sequence registry of two
\* workers, and the artifacts of one digest share one (worker, sequence
\* number) folder
C28_OneWorkerPerDigest ==
    /\ pc \in {"move", "grouped", "summarised"} =>
          /\ \A p, q \in People : p # q => Registered(p) \cap Registered(q) = {}
          /\ \A i \in 1..N : \E p \in People : file_meta[i].hash \in Registered(p)
    /\ pc \in {"grouped", "summarised"} =>
          \A i, j \in 1..N :
              file_meta[i].hash = file_meta[j].hash =>
                  updated_meta[i].dst_path = updated_meta[j].dst_path

\* two workers have digests registered, one digest is that of two artifacts
C28_Witness ==
    /\ pc = "grouped"
    /\ \A p \in People : Registered(p) # {}
    /\ people_count >= 2
    /\ \E i, j \in 1..N : i # j /\ file_meta[i].hash = file_meta[j].hash

\* the index reached from x by following n parent pointers
RECURSIVE Follow(_, _, _)
Follow(par, x, n) == IF n = 0 THEN x ELSE Follow(par, par[x], n - 1)

\* the root of x: in a forest no path is longer than the array
RootOf(par, x) == Follow(par, x, Len(par))

\* every index leads to a root r with par[r] = r: no cycle of length > 1
IsForest(par) ==
    \A x \in 1..Len(par) :
        /\ par[x] \in 1..Len(par)
        /\ par[RootOf(par, x)] = RootOf(par, x)

\* C29: after any sequence of union calls the parent array is a forest, so
\* find terminates, and find returns the root of its argument and changes
\* the root of no index
C29_UnionFindForest ==
    pc \in {"union", "comp_times"} =>
        /\ Len(parent) = N
        /\ IsForest(parent)
        /\ \A x \in 1..N :
              LET f == find(parent, x)
              IN /\ f.root = RootOf(parent, x)
                 /\ IsForest(f.parent)
                 /\ \A y \in 1..N : RootOf(f.parent, y) = RootOf(parent, y)

\* all union calls are done and an index lies two pointers below its root,
\* so the next find halves its path
C29_Witness ==
    /\ pc = "union"
    /\ upos = Len(UnionCalls(hash_map, id_map))
    /\ \E x \in 1..N :
          /\ parent[x] # x
          /\ parent[parent[x]] # parent[x]
          /\ find(parent, x).parent # parent

\* the source files whose name starts with one of the target ids
MatchingAll ==
    {i \in 1..Len(source_files) :
        \E t \in target_ids : Matches(source_files[i], t)}

\* every task of the pool has completed
AllTasksDone == \A t \in target_ids : task_pc[t] \in {"done", "raised", "taken"}

\* C30: once all tasks have completed, under every interleaving, each target
\* id is in exactly one of found_ids and missing_ids, found if and only if a
\* source file starts with that id, and copied + errors is the number of
\* matching files
C30_CopyBookkeeping ==
    (pc \in {"copy", "copied"} /\ AllTasksDone) =>
        /\ \A t \in target_ids :
              /\ t \in copy_stats.found_ids <=>
                    \E i \in 1..Len(source_files) : Matches(source_files[i], t)
              /\ t \in copy_stats.found_ids <=>
                    t \notin Range(copy_stats.missing_ids)
              /\ Cardinality({j \in 1..Len(copy_stats.missing_ids) :
                                 copy_stats.missing_ids[j] = t}) <= 1
        /\ copy_stats.found_ids \cup Range(copy_stats.missing_ids)
              \subseteq target_ids
        /\ copy_stats.copied + copy_stats.errors = Cardinality(MatchingAll)

====
